---- MODULE Spec2Model ----
(***************************************************************************)
(* Model of the LDAP -> Uyuni user reconciliation engine (package          *)
(* ldapsync): LDAPSync.Start, LDAPSync.SyncUsers, LDAPSync.Finish and the  *)
(* LDAPCaller connection.  One run is one process: a fatal log call ends   *)
(* it.  The directory server and the Uyuni XML-RPC server are the          *)
(* environment; their contents are drawn in Init.  An LDAPCaller can also  *)
(* be driven directly, by any sequence of Connect and Disconnect calls.    *)
(***************************************************************************)
EXTENDS Integers, Sequences, FiniteSets, TLC

VARIABLES
    frozen,        \* Config().Directory.Frozen
    entries,       \* the entries held by the directory server
    dest,          \* the accounts held by the Uyuni server
    conn,          \* LDAPCaller.conn ("nil" or "open")
    sessions,      \* per connection this LDAPCaller dialled: how often it was closed
    ops,           \* the LDAPCaller methods called on the connection, in order
    ldapusers,     \* LDAPSync.ldapusers
    uyuniusers,    \* LDAPSync.uyuniusers
    allldapusers,  \* LDAPSync.allldapusers
    phase,         \* position of the run: "new", "started", "synced", "finished", "aborted";
                   \* "api" when the LDAPCaller is driven directly
    abortedIn,     \* the function whose Log.Fatal ended the run, "" if none
    calls,         \* remote calls issued by the current run, in order
    prev,          \* the previous run: its calls and the phase it ended in
    failed,        \* the list returned by SyncUsers
    run,           \* number of the current run
    nfail          \* transport failures injected so far

vars == <<frozen, entries, dest, conn, sessions, ops, ldapusers, uyuniusers, allldapusers,
          phase, abortedIn, calls, prev, failed, run, nfail>>

(***************************************************************************)
(* Bounds.                                                                 *)
(***************************************************************************)
MaxRuns == 2
MaxFail == 1
MaxOps == 4

(***************************************************************************)
(* Generic helpers.                                                        *)
(***************************************************************************)
Range(s) == {s[i] : i \in DOMAIN s}

Contains(s, x) == \E i \in DOMAIN s : s[i] = x

RECURSIVE SetToSeq(_)
SetToSeq(S) ==
    IF S = {} THEN <<>>
    ELSE LET x == CHOOSE y \in S : TRUE IN <<x>> \o SetToSeq(S \ {x})

Perms(S) == {p \in [1..Cardinality(S) -> S] : \A i, j \in DOMAIN p : p[i] = p[j] => i = j}

(***************************************************************************)
(* Configuration (docs/ldapsync.conf), reduced to two destination roles.   *)
(***************************************************************************)
GOrg == "cn=org_admin,ou=Groups"
GSys == "cn=sysop,ou=Groups"
RRoot == "cn=root,ou=Groups"
Allusers == "ou=Users"

Groups == (GOrg :> <<"org_admin">>) @@ (GSys :> <<"channel_admin">>)

Roles == (RRoot :> <<"org_admin", "channel_admin">>)

\* attrmap is commented out in the configuration: no remapping
Attrmap == [b \in {} |-> [a \in {} |-> ""]]

FrozenChoices == {<<>>, <<"admin">>, <<"root", "admin">>}

(***************************************************************************)
(* The directory server: entries with a DN, the DNs they lie under, an     *)
(* object class and multi-valued attributes.                               *)
(***************************************************************************)
DnAlice == "cn=alice,ou=Users"
DnBob == "cn=bob,ou=Users"
DnAdmin == "cn=admin,ou=Users"

AttrNames == {"uid", "mail", "cn", "name", "givenName", "sn", "member", "roleOccupant"}

NoAttrs == [a \in AttrNames |-> <<>>]

Person(dn, uid, mail, cn, given, sn) ==
    [DN |-> dn, anc |-> {Allusers}, objectClass |-> "organizationalPerson",
     attrs |-> [NoAttrs EXCEPT !["uid"] = <<uid>>, !["mail"] = <<mail>>, !["cn"] = <<cn>>,
                               !["givenName"] = <<given>>, !["sn"] = <<sn>>]]

GroupEntry(dn, class, attr, members) ==
    [DN |-> dn, anc |-> {"ou=Groups"}, objectClass |-> class,
     attrs |-> [NoAttrs EXCEPT !["cn"] = <<dn>>, ![attr] = SetToSeq(members)]]

\* an entry stored below a person entry
ChildOf(dn) ==
    [DN |-> "cn=device,cn=bob,ou=Users", anc |-> {dn, Allusers}, objectClass |-> "device",
     attrs |-> [NoAttrs EXCEPT !["cn"] = <<"device">>]]

BobDirChoices == {"absent", "staged", "unstaged", "dangling", "ambiguous"}

\* the object classes the entry cn=sysop may have: both carry the attribute member
SysClassChoices == {"groupOfNames", "groupOfMembers"}

\* aliceIn: the configured DNs that list alice; bobDir: bob's place in the
\* directory; sysClass: the object class of cn=sysop; the administrator is
\* always listed in cn=org_admin.  Every uid belongs to one DN: uid is the
\* unique key of the data model.
MkDirectory(aliceIn, bobDir, sysClass) ==
    LET bobMember == bobDir \in {"staged", "dangling", "ambiguous"}
        mOrg == (IF GOrg \in aliceIn THEN {DnAlice} ELSE {}) \cup {DnAdmin}
        mSys == (IF GSys \in aliceIn THEN {DnAlice} ELSE {}) \cup (IF bobMember THEN {DnBob} ELSE {})
        mRoot == IF RRoot \in aliceIn THEN {DnAlice} ELSE {}
    IN  {GroupEntry(GOrg, "groupOfNames", "member", mOrg),
         GroupEntry(GSys, sysClass, "member", mSys),
         GroupEntry(RRoot, "organizationalRole", "roleOccupant", mRoot),
         Person(DnAlice, "alice", "alice@x", "Alice A", "", ""),
         Person(DnAdmin, "admin", "admin@x", "Admin", "Ad", "Min")}
        \cup (IF bobDir \in {"staged", "unstaged", "ambiguous"}
              THEN {Person(DnBob, "bob", "bob@x", "Bob", "Bob", "B")} ELSE {})
        \cup (IF bobDir = "ambiguous" THEN {ChildOf(DnBob)} ELSE {})

(***************************************************************************)
(* UyuniUser.  The type is defined outside the sources at hand: the record  *)
(* and its methods follow the data model (a role set without duplicates,   *)
(* flags that start false, a clone that copies every field).               *)
(***************************************************************************)
NewUyuniUser ==
    [Dn |-> "", Uid |-> "", Email |-> "", Name |-> "", Secondname |-> "", Err |-> FALSE,
     roles |-> <<>>, new |-> FALSE, outdated |-> FALSE,
     accountchanged |-> FALSE, roleschanged |-> FALSE]

RECURSIVE AddRoles(_, _)
AddRoles(user, rs) ==
    IF rs = <<>> THEN user
    ELSE AddRoles(IF Contains(user.roles, Head(rs)) THEN user
                  ELSE [user EXCEPT !.roles = Append(@, Head(rs))], Tail(rs))

FlushRoles(user) == [user EXCEPT !.roles = <<>>]

GetRoles(user) == user.roles

Clone(user) == user

IsNew(user) == user.new

IsOutdated(user) == user.outdated

IsValid(user) == ~user.Err

CompareRoles(a, b) == Range(GetRoles(a)) = Range(GetRoles(b))

(***************************************************************************)
(* LDAPCaller.Search and the directory-derived user sets.                  *)
(***************************************************************************)
AnyClass == {"*"}

\* the entries at or below base that match the object class filter
Search(base, filter) ==
    SetToSeq({e \in entries : /\ (e.DN = base \/ base \in e.anc)
                              /\ (filter = AnyClass \/ e.objectClass \in filter)})

GetAttributeValues(entry, a) == IF a \in AttrNames THEN entry.attrs[a] ELSE <<>>

GetAttributeValue(entry, a) ==
    IF GetAttributeValues(entry, a) = <<>> THEN "" ELSE GetAttributeValues(entry, a)[1]

\* strings.Split(cn, " ") on the cn values of the directory
Split(cn) ==
    CASE cn = "Alice A" -> <<"Alice", "A">>
      [] cn = "Bob" -> <<"Bob">>
      [] cn = "Admin" -> <<"Admin">>
      [] OTHER -> <<cn>>

getAttributeNameFor(attr) ==
    IF Allusers \in DOMAIN Attrmap /\ attr \in DOMAIN Attrmap[Allusers]
    THEN Attrmap[Allusers][attr] ELSE attr

RECURSIVE getAttributes(_, _)
getAttributes(entry, attr) ==
    IF attr = <<>> THEN ""
    ELSE IF GetAttributeValue(entry, Head(attr)) # "" THEN GetAttributeValue(entry, Head(attr))
    ELSE getAttributes(entry, Tail(attr))

\* newUserFromDN that reads the first entry of a result with several entries
newUserFromDNFirstEntry(dn) ==
    LET found == Search(dn, AnyClass)
        entry == found[1]
        cn == Split(GetAttributeValue(entry, "cn"))
    IN  IF Len(found) >= 1
        THEN [NewUyuniUser EXCEPT
                !.Dn = entry.DN,
                !.Uid = GetAttributeValue(entry, getAttributeNameFor("uid")),
                !.Email = GetAttributeValue(entry, getAttributeNameFor("mail")),
                !.Name = IF Len(cn) = 2 THEN cn[1]
                         ELSE getAttributes(entry, <<getAttributeNameFor("name"),
                                                     getAttributeNameFor("givenName")>>),
                !.Secondname = IF Len(cn) = 2 THEN cn[2]
                               ELSE GetAttributeValue(entry, getAttributeNameFor("sn"))]
        ELSE NewUyuniUser

newUserFromDN(dn) ==
    LET found == Search(dn, AnyClass)
        entry == found[1]
        cn == Split(GetAttributeValue(entry, "cn"))
    IN  IF Len(found) = 1
        THEN [NewUyuniUser EXCEPT
                !.Dn = entry.DN,
                !.Uid = GetAttributeValue(entry, getAttributeNameFor("uid")),
                !.Email = GetAttributeValue(entry, getAttributeNameFor("mail")),
                !.Name = IF Len(cn) = 2 THEN cn[1]
                         ELSE getAttributes(entry, <<getAttributeNameFor("name"),
                                                     getAttributeNameFor("givenName")>>),
                !.Secondname = IF Len(cn) = 2 THEN cn[2]
                               ELSE GetAttributeValue(entry, getAttributeNameFor("sn"))]
        ELSE NewUyuniUser

RECURSIVE refreshAllLDAPUsersFrom(_)
refreshAllLDAPUsersFrom(found) ==
    IF found = <<>> THEN <<>>
    ELSE <<newUserFromDN(Head(found).DN)>> \o refreshAllLDAPUsersFrom(Tail(found))

refreshAllLDAPUsers == refreshAllLDAPUsersFrom(Search(Allusers, {"organizationalPerson"}))

roleConfigs ==
    <<[config |-> Roles, filter |-> {"organizationalRole"}, attribute |-> "roleOccupant"],
      [config |-> Groups, filter |-> {"groupOfNames", "group"}, attribute |-> "member"]>>

\* the values of one attribute over a search result, in order
RECURSIVE ValuesOf(_, _)
ValuesOf(found, attribute) ==
    IF found = <<>> THEN <<>>
    ELSE GetAttributeValues(Head(found), attribute) \o ValuesOf(Tail(found), attribute)

RECURSIVE mergeMatches(_, _, _)
mergeMatches(values, user, uyuniRoles) ==
    IF values = <<>> THEN user
    ELSE mergeMatches(Tail(values),
                      IF Head(values) = user.Dn THEN AddRoles(user, uyuniRoles) ELSE user,
                      uyuniRoles)

\* mergeRolesByAttributes that assigns the roles of the matching DN
mergeRolesByAttributesAssign(dn, user, filter, attribute, uyuniRoles) ==
    IF Contains(ValuesOf(Search(dn, filter), attribute), user.Dn)
    THEN AddRoles(FlushRoles(user), uyuniRoles) ELSE user

mergeRolesByAttributes(dn, user, filter, attribute, uyuniRoles) ==
    mergeMatches(ValuesOf(Search(dn, filter), attribute), user, uyuniRoles)

RECURSIVE mergeConfig(_, _, _)
mergeConfig(user, searchConfig, dns) ==
    IF dns = <<>> THEN user
    ELSE mergeConfig(mergeRolesByAttributes(Head(dns), user, searchConfig.filter,
                                            searchConfig.attribute, searchConfig.config[Head(dns)]),
                     searchConfig, Tail(dns))

\* srcOrder: the order of the role sources; dnOrder[i]: the order in which
\* the map of source i is iterated
RECURSIVE updateLDAPUserRoles(_, _, _)
updateLDAPUserRoles(user, srcOrder, dnOrder) ==
    IF srcOrder = <<>> THEN user
    ELSE updateLDAPUserRoles(mergeConfig(user, roleConfigs[Head(srcOrder)], dnOrder[Head(srcOrder)]),
                             Tail(srcOrder), dnOrder)

\* the range over the array roleConfigs
ConfigOrder == <<1, 2>>

DnOrders == {<<r, g>> : r \in Perms(DOMAIN Roles), g \in Perms(DOMAIN Groups)}

\* the distinct member and occupant DNs below every configured DN
StagedDNs ==
    UNION {Range(ValuesOf(Search(gdn, AnyClass), "member")
                 \o ValuesOf(Search(gdn, AnyClass), "roleOccupant"))
           : gdn \in DOMAIN Groups \cup DOMAIN Roles}

\* collectUsers without the check against the frozen list
RECURSIVE collectUsersUnfiltered(_, _)
collectUsersUnfiltered(udns, dnOrder) ==
    IF udns = <<>> THEN <<>>
    ELSE LET user == newUserFromDN(Head(udns))
         IN  (IF user.Uid # ""
              THEN <<updateLDAPUserRoles(user, ConfigOrder, dnOrder)>> ELSE <<>>)
             \o collectUsersUnfiltered(Tail(udns), dnOrder)

RECURSIVE collectUsers(_, _)
collectUsers(udns, dnOrder) ==
    IF udns = <<>> THEN <<>>
    ELSE LET user == newUserFromDN(Head(udns))
         IN  (IF user.Uid # "" /\ ~Contains(frozen, user.Uid)
              THEN <<updateLDAPUserRoles(user, ConfigOrder, dnOrder)>> ELSE <<>>)
             \o collectUsers(Tail(udns), dnOrder)

\* udns: the iteration order of the map of distinct DNs
refreshStagedLDAPUsers(udns, dnOrder) == collectUsers(udns, dnOrder)

(***************************************************************************)
(* The Uyuni server behind UyuniCaller.Call.  A call is <<method, uid,     *)
(* role>>; it fails when the transport fails (the call is in fail) or when *)
(* the server rejects it.                                                  *)
(***************************************************************************)
UIDs == {"admin", "root", "alice", "bob"}

NoAccount == [exists |-> FALSE, email |-> "", first_name |-> "", last_name |-> "",
              roles |-> {}, pam |-> FALSE]

Account(email, first, last, roles, pam) ==
    [exists |-> TRUE, email |-> email, first_name |-> first, last_name |-> last,
     roles |-> roles, pam |-> pam]

Exists(d, uid) == uid \in DOMAIN d /\ d[uid].exists

ServerAccepts(d, m, uid) ==
    CASE m = "user.listUsers" -> TRUE
      [] m = "user.create" -> uid \in DOMAIN d /\ ~d[uid].exists
      [] OTHER -> Exists(d, uid)

ServerApply(d, m, uid, role, user) ==
    CASE m = "user.create" ->
            [d EXCEPT ![uid] = Account(user.Email, user.Name, user.Secondname, {}, TRUE)]
      [] m = "user.setDetails" ->
            [d EXCEPT ![uid].email = user.Email, ![uid].first_name = user.Name,
                      ![uid].last_name = user.Secondname]
      [] m = "user.usePamAuthentication" -> [d EXCEPT ![uid].pam = TRUE]
      [] m = "user.addRole" -> [d EXCEPT ![uid].roles = @ \cup {role}]
      [] m = "user.removeRole" -> [d EXCEPT ![uid].roles = @ \ {role}]
      [] m = "user.delete" -> [d EXCEPT ![uid] = NoAccount]
      [] OTHER -> d

\* st = [dest, calls, ok, by]: the server's accounts, the calls issued so far,
\* whether the last call returned without error, and the calling entry point
Call(st, m, uid, role, user, fail) ==
    LET ok == <<m, uid, role>> \notin fail /\ ServerAccepts(st.dest, m, uid)
    IN  [dest |-> IF ok THEN ServerApply(st.dest, m, uid, role, user) ELSE st.dest,
         calls |-> Append(st.calls, [m |-> m, uid |-> uid, role |-> role, ok |-> ok,
                                     by |-> st.by]),
         ok |-> ok, by |-> st.by]

Issued(cs, c) == \E i \in DOMAIN cs : <<cs[i].m, cs[i].uid, cs[i].role>> = c

(***************************************************************************)
(* Start: the lockout guard and the three user sets.                       *)
(***************************************************************************)
\* verifyIgnoredUsers with valid set by any lookup that succeeds
RECURSIVE verifyIgnoredUsersAnyRole(_, _, _)
verifyIgnoredUsersAnyRole(st, uids, fail) ==
    IF uids = <<>> THEN [st EXCEPT !.ok = FALSE]
    ELSE LET res == Call(st, "user.listRoles", Head(uids), "", NewUyuniUser, fail)
         IN  IF res.ok THEN [res EXCEPT !.ok = TRUE]
             ELSE verifyIgnoredUsersAnyRole(res, Tail(uids), fail)

\* verifyIgnoredUsers that gives up at the first lookup that fails
RECURSIVE verifyIgnoredUsersStopOnError(_, _, _)
verifyIgnoredUsersStopOnError(st, uids, fail) ==
    IF uids = <<>> THEN [st EXCEPT !.ok = FALSE]
    ELSE LET res == Call(st, "user.listRoles", Head(uids), "", NewUyuniUser, fail)
         IN  IF ~res.ok THEN [res EXCEPT !.ok = FALSE]
             ELSE IF "org_admin" \in res.dest[Head(uids)].roles
             THEN [res EXCEPT !.ok = TRUE]
             ELSE verifyIgnoredUsersStopOnError(res, Tail(uids), fail)

\* result: the calls issued and whether a frozen account holds org_admin
RECURSIVE verifyIgnoredUsers(_, _, _)
verifyIgnoredUsers(st, uids, fail) ==
    IF uids = <<>> THEN [st EXCEPT !.ok = FALSE]
    ELSE LET res == Call(st, "user.listRoles", Head(uids), "", NewUyuniUser, fail)
         IN  IF res.ok /\ "org_admin" \in res.dest[Head(uids)].roles
             THEN [res EXCEPT !.ok = TRUE]
             ELSE verifyIgnoredUsers(res, Tail(uids), fail)

\* refreshExistingLoop that logs a failed lookup and goes on with the next account
RECURSIVE refreshExistingLoopSkip(_, _, _, _)
refreshExistingLoopSkip(st, logins, users, fail) ==
    IF logins = <<>> THEN [st |-> st, users |-> users, fatal |-> FALSE]
    ELSE LET uid == Head(logins)
             det == Call(st, "user.getDetails", uid, "", NewUyuniUser, fail)
             rol == Call(det, "user.listRoles", uid, "", NewUyuniUser, fail)
             user == AddRoles([NewUyuniUser EXCEPT !.Uid = uid,
                                                   !.Email = st.dest[uid].email,
                                                   !.Name = st.dest[uid].first_name,
                                                   !.Secondname = st.dest[uid].last_name],
                              SetToSeq(st.dest[uid].roles))
         IN  IF Contains(frozen, uid) THEN refreshExistingLoopSkip(st, Tail(logins), users, fail)
             ELSE IF ~det.ok THEN refreshExistingLoopSkip(det, Tail(logins), users, fail)
             ELSE IF ~rol.ok THEN refreshExistingLoopSkip(rol, Tail(logins), users, fail)
             ELSE refreshExistingLoopSkip(rol, Tail(logins), Append(users, user), fail)

\* result: [st, users, fatal]
RECURSIVE refreshExistingLoop(_, _, _, _)
refreshExistingLoop(st, logins, users, fail) ==
    IF logins = <<>> THEN [st |-> st, users |-> users, fatal |-> FALSE]
    ELSE LET uid == Head(logins)
             det == Call(st, "user.getDetails", uid, "", NewUyuniUser, fail)
             rol == Call(det, "user.listRoles", uid, "", NewUyuniUser, fail)
             user == AddRoles([NewUyuniUser EXCEPT !.Uid = uid,
                                                   !.Email = st.dest[uid].email,
                                                   !.Name = st.dest[uid].first_name,
                                                   !.Secondname = st.dest[uid].last_name],
                              SetToSeq(st.dest[uid].roles))
         IN  IF Contains(frozen, uid) THEN refreshExistingLoop(st, Tail(logins), users, fail)
             ELSE IF ~det.ok THEN [st |-> det, users |-> users, fatal |-> TRUE]
             ELSE IF ~rol.ok THEN [st |-> rol, users |-> users, fatal |-> TRUE]
             ELSE refreshExistingLoop(rol, Tail(logins), Append(users, user), fail)

refreshExistingUyuniUsers(st, fail) ==
    LET res == Call(st, "user.listUsers", "", "", NewUyuniUser, fail)
    IN  IF ~res.ok THEN [st |-> res, users |-> <<>>, fatal |-> TRUE]
        ELSE refreshExistingLoop(res, SetToSeq({u \in DOMAIN res.dest : res.dest[u].exists}),
                                 <<>>, fail)

in(user, users) == \E i \in DOMAIN users : users[i].Uid = user.Uid

\* sameAsIn that compares the given name with the family name
sameAsInWrongField(user, users) ==
    IF ~in(user, users) THEN [same |-> FALSE, err |-> TRUE, user |-> user]
    ELSE LET u == users[CHOOSE i \in DOMAIN users : users[i].Uid = user.Uid]
             s1 == u.Email = user.Email
             s2 == IF s1 THEN u.Name = user.Secondname ELSE FALSE
             s3 == IF s2 THEN u.Secondname = user.Secondname ELSE FALSE
             s4 == IF s3 THEN CompareRoles(user, u) ELSE FALSE
         IN  [same |-> s4, err |-> FALSE,
              user |-> [user EXCEPT !.accountchanged = @ \/ ~s3,
                                    !.roleschanged = @ \/ ~s4]]

\* result: [same, err, user]; user carries the diagnostic flags
sameAsIn(user, users) ==
    IF ~in(user, users) THEN [same |-> FALSE, err |-> TRUE, user |-> user]
    ELSE LET u == users[CHOOSE i \in DOMAIN users :
                          /\ users[i].Uid = user.Uid
                          /\ \A j \in 1..(i - 1) : users[j].Uid # user.Uid]
             s1 == u.Email = user.Email
             s2 == IF s1 THEN u.Name = user.Name ELSE FALSE
             s3 == IF s2 THEN u.Secondname = user.Secondname ELSE FALSE
             s4 == IF s3 THEN CompareRoles(user, u) ELSE FALSE
         IN  [same |-> s4, err |-> FALSE,
              user |-> [user EXCEPT !.accountchanged = @ \/ ~s3,
                                    !.roleschanged = @ \/ ~s4]]

\* overwrite that leaves the role set of the destination user as it was
overwriteKeepRoles(users, user) ==
    [i \in DOMAIN users |->
        IF users[i].Uid = user.Uid
        THEN [users[i] EXCEPT !.outdated = user.outdated, !.Name = user.Name,
                              !.Secondname = user.Secondname, !.Email = user.Email]
        ELSE users[i]]

\* the overwrite of the destination users that share the uid of user
overwrite(users, user) ==
    [i \in DOMAIN users |->
        IF users[i].Uid = user.Uid
        THEN AddRoles(FlushRoles([users[i] EXCEPT !.outdated = user.outdated,
                                                  !.Name = user.Name,
                                                  !.Secondname = user.Secondname,
                                                  !.Email = user.Email]),
                      GetRoles(user))
        ELSE users[i]]

\* result: [ldap, uyuni]: both lists after the loop from index i on
RECURSIVE refreshStatusLoop(_, _, _, _)
refreshStatusLoop(ldap, uyuni, newusers, i) ==
    IF i > Len(ldap) THEN [ldap |-> ldap, uyuni |-> uyuni \o newusers]
    ELSE LET isnew == ~in(ldap[i], uyuni)
             cmp == sameAsIn(ldap[i], uyuni)
             user == IF isnew THEN [ldap[i] EXCEPT !.new = TRUE]
                     ELSE IF cmp.err THEN [cmp.user EXCEPT !.new = FALSE]
                     ELSE [cmp.user EXCEPT !.new = FALSE, !.outdated = ~cmp.same]
         IN  refreshStatusLoop([ldap EXCEPT ![i] = user], overwrite(uyuni, user),
                               IF isnew THEN Append(newusers, Clone(user)) ELSE newusers,
                               i + 1)

\* refreshUyuniUsersStatus without the append of the new users
refreshUyuniUsersStatusNoAppend(ldap, uyuni) ==
    [refreshStatusLoop(ldap, uyuni, <<>>, 1) EXCEPT !.uyuni = SubSeq(@, 1, Len(uyuni))]

refreshUyuniUsersStatus(ldap, uyuni) == refreshStatusLoop(ldap, uyuni, <<>>, 1)

(***************************************************************************)
(* SyncUsers: the create, update and delete passes.                        *)
(***************************************************************************)
\* removeRoles that returns at the first user.removeRole that fails
RECURSIVE removeRolesReturnOnError(_, _, _, _)
removeRolesReturnOnError(st, uid, rs, fail) ==
    IF rs = <<>> THEN st
    ELSE LET res == Call(st, "user.removeRole", uid, Head(rs), NewUyuniUser, fail)
         IN  IF ~res.ok THEN res ELSE removeRolesReturnOnError(res, uid, Tail(rs), fail)

RECURSIVE removeRoles(_, _, _, _)
removeRoles(st, uid, rs, fail) ==
    IF rs = <<>> THEN st
    ELSE removeRoles(Call(st, "user.removeRole", uid, Head(rs), NewUyuniUser, fail),
                     uid, Tail(rs), fail)

RECURSIVE addRoles(_, _, _, _)
addRoles(st, uid, rs, fail) ==
    IF rs = <<>> THEN st
    ELSE addRoles(Call(st, "user.addRole", uid, Head(rs), NewUyuniUser, fail),
                  uid, Tail(rs), fail)

\* pushUserRolesToUyuni that adds the roles without removing the current ones
pushUserRolesToUyuniAddOnly(st, uyuniUser, fail) ==
    LET ret == Call(st, "user.listRoles", uyuniUser.Uid, "", NewUyuniUser, fail)
    IN  IF ~ret.ok THEN ret
        ELSE addRoles(ret, uyuniUser.Uid, GetRoles(uyuniUser), fail)

pushUserRolesToUyuni(st, uyuniUser, fail) ==
    LET ret == Call(st, "user.listRoles", uyuniUser.Uid, "", NewUyuniUser, fail)
    IN  IF ~ret.ok THEN ret
        ELSE addRoles(removeRoles(ret, uyuniUser.Uid, SetToSeq(ret.dest[uyuniUser.Uid].roles), fail),
                      uyuniUser.Uid, GetRoles(uyuniUser), fail)

\* pushUserAccountDataToUyuni that goes on after a failed user.setDetails
pushUserAccountDataToUyuniNoReturn(st, user, fail) ==
    Call(Call(st, "user.setDetails", user.Uid, "", user, fail),
         "user.usePamAuthentication", user.Uid, "", user, fail)

pushUserAccountDataToUyuni(st, user, fail) ==
    LET res == Call(st, "user.setDetails", user.Uid, "", user, fail)
    IN  IF ~res.ok THEN res
        ELSE Call(res, "user.usePamAuthentication", user.Uid, "", user, fail)

deleteUser(st, uyuniUser, fail) == Call(st, "user.delete", uyuniUser.Uid, "", uyuniUser, fail)

RECURSIVE updateFromLDAPUserLoop(_, _)
updateFromLDAPUserLoop(uyuniUser, ldap) ==
    IF ldap = <<>> THEN uyuniUser
    ELSE updateFromLDAPUserLoop(
            IF Head(ldap).Uid = uyuniUser.Uid
            THEN AddRoles(FlushRoles([uyuniUser EXCEPT !.Name = Head(ldap).Name,
                                                       !.Secondname = Head(ldap).Secondname,
                                                       !.Email = Head(ldap).Email]),
                          GetRoles(Head(ldap)))
            ELSE uyuniUser,
            Tail(ldap))

\* updateFromLDAPUser that flushes the roles and does not copy the directory's
updateFromLDAPUserNoRoles(uyuniUser, ldap) == FlushRoles(uyuniUser)

updateFromLDAPUser(uyuniUser, ldap) == updateFromLDAPUserLoop(uyuniUser, ldap)

\* the positions in users that satisfy Keep, in order
RECURSIVE Positions(_, _, _)
Positions(users, Keep(_), i) ==
    IF i > Len(users) THEN <<>>
    ELSE (IF Keep(users[i]) THEN <<i>> ELSE <<>>) \o Positions(users, Keep, i + 1)

\* positions in uyuniusers of the users GetNewUsers returns
GetNewUsers(uyuni) == Positions(uyuni, IsNew, 1)

IsExisting(user) == ~IsNew(user) /\ IsOutdated(user)

\* GetOutdatedUsers that returns every user that is not new
GetOutdatedUsersAll(uyuni) ==
    LET NotNew(user) == ~IsNew(user)
    IN  Positions(uyuni, NotNew, 1)

\* positions in uyuniusers of the users GetOutdatedUsers returns
GetOutdatedUsers(uyuni) == Positions(uyuni, IsExisting, 1)

\* GetDeletedUsers without the lookup in the destination users
GetDeletedUsersAnywhere(all, ldap, uyuni) ==
    LET Gone(user) == ~in(user, ldap)
    IN  Positions(all, Gone, 1)

\* GetDeletedUsers without the lookup in the staged set
GetDeletedUsersStaged(all, ldap, uyuni) ==
    LET Gone(user) == in(user, uyuni)
    IN  Positions(all, Gone, 1)

\* positions in allldapusers of the users GetDeletedUsers returns
GetDeletedUsers(all, ldap, uyuni) ==
    LET Gone(user) == ~in(user, ldap) /\ in(user, uyuni)
    IN  Positions(all, Gone, 1)

\* createLoop that returns at the first user.create that fails
RECURSIVE createLoopReturnOnError(_, _, _, _, _)
createLoopReturnOnError(st, uyuni, newUsers, failedSoFar, fail) ==
    IF newUsers = <<>> THEN [st |-> st, uyuni |-> uyuni, failed |-> failedSoFar]
    ELSE LET i == Head(newUsers)
             res == Call(st, "user.create", uyuni[i].Uid, "", uyuni[i], fail)
             user == [uyuni[i] EXCEPT !.Err = ~res.ok]
         IN  IF ~IsValid(user)
             THEN [st |-> res, uyuni |-> [uyuni EXCEPT ![i] = user],
                   failed |-> Append(failedSoFar, user)]
             ELSE createLoopReturnOnError(pushUserRolesToUyuni(res, user, fail),
                                          [uyuni EXCEPT ![i] = user],
                                          Tail(newUsers), failedSoFar, fail)

\* result of the three loops: [st, uyuni, failed]
RECURSIVE createLoop(_, _, _, _, _)
createLoop(st, uyuni, newUsers, failedSoFar, fail) ==
    IF newUsers = <<>> THEN [st |-> st, uyuni |-> uyuni, failed |-> failedSoFar]
    ELSE LET i == Head(newUsers)
             res == Call(st, "user.create", uyuni[i].Uid, "", uyuni[i], fail)
             user == [uyuni[i] EXCEPT !.Err = ~res.ok]
         IN  IF ~IsValid(user)
             THEN createLoop(res, [uyuni EXCEPT ![i] = user], Tail(newUsers),
                             Append(failedSoFar, user), fail)
             ELSE createLoop(pushUserRolesToUyuni(res, user, fail), [uyuni EXCEPT ![i] = user],
                             Tail(newUsers), failedSoFar, fail)

RECURSIVE updateLoop(_, _, _, _)
updateLoop(st, uyuni, existingUsers, fail) ==
    IF existingUsers = <<>> THEN st
    ELSE updateLoop(pushUserAccountDataToUyuni(
                        pushUserRolesToUyuni(st, uyuni[Head(existingUsers)], fail),
                        uyuni[Head(existingUsers)], fail),
                    uyuni, Tail(existingUsers), fail)

RECURSIVE deleteLoop(_, _, _, _)
deleteLoop(st, all, deletedUsers, fail) ==
    IF deletedUsers = <<>> THEN st
    ELSE deleteLoop(deleteUser(st, all[Head(deletedUsers)], fail), all, Tail(deletedUsers), fail)

\* SyncUsers with the update pass ahead of the create pass
SyncUsersResultUpdateFirst(st, ldap, uyuni, all, fail) ==
    LET fresh == [i \in DOMAIN uyuni |->
                    IF IsNew(uyuni[i]) THEN updateFromLDAPUser(uyuni[i], ldap) ELSE uyuni[i]]
        updated == updateLoop(st, fresh, GetOutdatedUsers(fresh), fail)
        created == createLoop(updated, fresh, GetNewUsers(fresh), <<>>, fail)
        deleted == deleteLoop(created.st, all, GetDeletedUsers(all, ldap, created.uyuni), fail)
    IN  [st |-> deleted, uyuni |-> created.uyuni, failed |-> created.failed]

SyncUsersResult(st, ldap, uyuni, all, fail) ==
    LET fresh == [i \in DOMAIN uyuni |->
                    IF IsNew(uyuni[i]) THEN updateFromLDAPUser(uyuni[i], ldap) ELSE uyuni[i]]
        created == createLoop(st, fresh, GetNewUsers(fresh), <<>>, fail)
        updated == updateLoop(created.st, created.uyuni, GetOutdatedUsers(created.uyuni), fail)
        deleted == deleteLoop(updated, all, GetDeletedUsers(all, ldap, created.uyuni), fail)
    IN  [st |-> deleted, uyuni |-> created.uyuni, failed |-> created.failed]

(***************************************************************************)
(* Initial states: the configuration, the directory and the accounts.      *)
(***************************************************************************)
AliceDestChoices ==
    {NoAccount}
    \cup {Account("alice@x", "Alice", "A", R, TRUE) :
             R \in {{}, {"org_admin"}, {"org_admin", "channel_admin"}}}
    \cup {Account("old@x", "Alice", "A", {"org_admin"}, TRUE),
          Account("alice@x", "Al", "A", {"org_admin"}, TRUE),
          Account("alice@x", "Alice", "Z", {"org_admin"}, TRUE)}

BobDestChoices ==
    {NoAccount, Account("bob@x", "Bob", "B", {"channel_admin"}, TRUE),
     Account("bob@x", "Bob", "B", {"org_admin"}, TRUE)}

AdminDestChoices ==
    {NoAccount, Account("admin@x", "Ad", "Min", {}, FALSE),
     Account("admin@x", "Ad", "Min", {"org_admin"}, FALSE)}

NoPrev == [calls |-> <<>>, phase |-> "none"]

Init ==
    /\ \/ /\ phase = "new"
          /\ frozen \in FrozenChoices
          /\ \E aliceIn \in SUBSET {GOrg, GSys, RRoot}, bobDir \in BobDirChoices,
                sysClass \in SysClassChoices :
                entries = MkDirectory(aliceIn, bobDir, sysClass)
          /\ \E a \in AliceDestChoices, b \in BobDestChoices, ad \in AdminDestChoices :
                dest = [u \in UIDs |-> CASE u = "alice" -> a [] u = "bob" -> b
                                         [] u = "admin" -> ad [] OTHER -> NoAccount]
       \/ /\ phase = "api"
          /\ frozen = <<>>
          /\ entries = MkDirectory({}, "absent", "groupOfNames")
          /\ dest = [u \in UIDs |-> NoAccount]
    /\ conn = "nil"
    /\ sessions = <<>>
    /\ ops = <<>>
    /\ ldapusers = <<>>
    /\ uyuniusers = <<>>
    /\ allldapusers = <<>>
    /\ abortedIn = ""
    /\ calls = <<>>
    /\ prev = NoPrev
    /\ failed = <<>>
    /\ run = 1
    /\ nfail = 0

(***************************************************************************)
(* Transport failures: sets of calls, at most MaxFail over a behaviour.    *)
(***************************************************************************)
ReadCalls ==
    {<<"user.listUsers", "", "">>}
    \cup {<<m, u, "">> : m \in {"user.listRoles", "user.getDetails"}, u \in UIDs}

DestRoles == {"org_admin", "channel_admin"}

WriteCalls ==
    {<<m, u, "">> : m \in {"user.create", "user.listRoles", "user.setDetails",
                           "user.usePamAuthentication", "user.delete"}, u \in UIDs}
    \cup {<<m, u, r>> : m \in {"user.addRole", "user.removeRole"}, u \in UIDs, r \in DestRoles}

CallIds(cs) == {<<cs[i].m, cs[i].uid, cs[i].role>> : i \in DOMAIN cs}

\* the sets of at most k calls that fail, each one a call that is issued
\* when the ones before it fail; IssuedUnder(F): the calls issued under F
RECURSIVE FailSets(_, _, _)
FailSets(IssuedUnder(_), universe, k) ==
    IF k <= 0 THEN {{}}
    ELSE LET smaller == FailSets(IssuedUnder, universe, k - 1)
         IN  smaller \cup UNION {{F \cup {c} : c \in IssuedUnder(F) \cap universe} : F \in smaller}

(***************************************************************************)
(* Actions.                                                                *)
(***************************************************************************)
Abort(where, cs, injected) ==
    /\ phase' = "aborted"
    /\ abortedIn' = where
    /\ calls' = cs
    /\ nfail' = nfail + injected
    /\ UNCHANGED <<frozen, entries, dest, ldapusers, uyuniusers, allldapusers, prev, failed, run>>

\* a call on the directory connection, as an entry of calls
LdapCall(m, ok) == [m |-> m, uid |-> "", role |-> "", ok |-> ok, by |-> "Start"]

\* the dial of ConnectAlways: every Connect dials
ConnectAlways(lc, dialOk) ==
    IF dialOk
    THEN [conn |-> "open", sessions |-> Append(lc.sessions, 0), dialled |-> TRUE,
          fatal |-> FALSE]
    ELSE [conn |-> lc.conn, sessions |-> lc.sessions, dialled |-> TRUE, fatal |-> TRUE]

\* LDAPCaller.Connect on lc = [conn, sessions]; dialOk: ldap.Dial succeeds
Connect(lc, dialOk) ==
    IF lc.conn = "nil"
    THEN IF dialOk
         THEN [conn |-> "open", sessions |-> Append(lc.sessions, 0), dialled |-> TRUE,
               fatal |-> FALSE]
         ELSE [conn |-> "nil", sessions |-> lc.sessions, dialled |-> TRUE, fatal |-> TRUE]
    ELSE [conn |-> lc.conn, sessions |-> lc.sessions, dialled |-> FALSE, fatal |-> FALSE]

\* LDAPCaller.Disconnect: closes the connection held, the last one dialled
Disconnect(lc) ==
    IF lc.conn # "nil"
    THEN [conn |-> "nil",
          sessions |-> [lc.sessions EXCEPT ![Len(lc.sessions)] = @ + 1]]
    ELSE [conn |-> lc.conn, sessions |-> lc.sessions]

\* the entries of calls a Connect leaves
DialCalls(c) == IF c.dialled THEN <<LdapCall("ldap.Dial", ~c.fatal)>> ELSE <<>>

\* Start when LDAPCaller.Connect fails: Log.Fatal ends the run
StartDialFails ==
    /\ phase = "new"
    /\ nfail < MaxFail
    /\ LET c == Connect([conn |-> conn, sessions |-> sessions], FALSE)
       IN  /\ c.fatal
           /\ conn' = c.conn
           /\ sessions' = c.sessions
           /\ ops' = Append(ops, "Connect")
           /\ Abort("Connect", calls \o DialCalls(c), 1)

\* the directory searches of a Start that reads both directory sets: the
\* searches of refreshStagedLDAPUsers, then those of refreshAllLDAPUsers
StartSearches == <<LdapCall("ldap.Search", TRUE), LdapCall("ldap.Search", TRUE)>>

\* the searches done when one of them fails: in the first function or the second
SearchesBeforeFailure == {<<>>, <<LdapCall("ldap.Search", TRUE)>>}

\* the destination calls Start issues when the calls in fail fail
StartCalls(fail) ==
    LET st0 == [dest |-> dest, calls |-> <<>>, ok |-> TRUE, by |-> "Start"]
        guard == verifyIgnoredUsers(st0, frozen, fail)
    IN  CallIds(IF guard.ok THEN refreshExistingUyuniUsers(guard, fail).st.calls ELSE guard.calls)

\* Start with the connection established.  fail: the destination calls whose
\* transport fails; a directory search may fail once the destination users
\* are read; udns, dnOrder: the iteration orders of the maps
Start ==
    /\ phase = "new"
    /\ LET lc == Connect([conn |-> conn, sessions |-> sessions], TRUE)
       IN  /\ conn' = lc.conn
           /\ sessions' = lc.sessions
           /\ ops' = Append(ops, "Connect")
    /\ \E fail \in FailSets(StartCalls, ReadCalls, MaxFail - nfail) :
         LET lc == Connect([conn |-> conn, sessions |-> sessions], TRUE)
             st0 == [dest |-> dest, calls |-> DialCalls(lc), ok |-> TRUE, by |-> "Start"]
             guard == verifyIgnoredUsers(st0, frozen, fail)
             existing == refreshExistingUyuniUsers(guard, fail)
             injected == Cardinality(fail)
         IN  IF ~guard.ok
             THEN /\ \A c \in fail : Issued(guard.calls, c)
                  /\ Abort("verifyIgnoredUsers", guard.calls, injected)
             ELSE /\ \A c \in fail : Issued(existing.st.calls, c)
                  /\ IF existing.fatal
                     THEN Abort("refreshExistingUyuniUsers", existing.st.calls, injected)
                     ELSE \/ /\ injected < MaxFail - nfail
                             /\ \E done \in SearchesBeforeFailure :
                                  Abort("Search", existing.st.calls \o done
                                                  \o <<LdapCall("ldap.Search", FALSE)>>,
                                        injected + 1)
                          \/ \E udns \in Perms(StagedDNs), dnOrder \in DnOrders :
                               LET staged == refreshStagedLDAPUsers(udns, dnOrder)
                                   status == refreshUyuniUsersStatus(staged, existing.users)
                               IN  /\ phase' = "started"
                                   /\ ldapusers' = status.ldap
                                   /\ uyuniusers' = status.uyuni
                                   /\ allldapusers' = refreshAllLDAPUsers
                                   /\ calls' = existing.st.calls \o StartSearches
                                   /\ nfail' = nfail + injected
                                   /\ UNCHANGED <<frozen, entries, dest, abortedIn, prev,
                                                  failed, run>>

\* the calls SyncUsers issues when the calls in fail fail
SyncCalls(fail) ==
    CallIds(SyncUsersResult([dest |-> dest, calls |-> <<>>, ok |-> TRUE, by |-> "SyncUsers"],
                            ldapusers, uyuniusers, allldapusers, fail).st.calls)

\* fail: the calls whose transport fails
SyncUsers ==
    /\ phase = "started"
    /\ \E fail \in FailSets(SyncCalls, WriteCalls, MaxFail - nfail) :
         LET st0 == [dest |-> dest, calls |-> <<>>, ok |-> TRUE, by |-> "SyncUsers"]
             res == SyncUsersResult(st0, ldapusers, uyuniusers, allldapusers, fail)
         IN  /\ \A c \in fail : Issued(res.st.calls, c)
             /\ dest' = res.st.dest
             /\ calls' = calls \o res.st.calls
             /\ uyuniusers' = res.uyuni
             /\ failed' = res.failed
             /\ nfail' = nfail + Cardinality(fail)
    /\ phase' = "synced"
    /\ UNCHANGED <<frozen, entries, conn, sessions, ops, ldapusers, allldapusers, abortedIn,
                   prev, run>>

\* Finish: LDAPCaller.Disconnect
Finish ==
    /\ phase = "synced"
    /\ LET d == Disconnect([conn |-> conn, sessions |-> sessions])
       IN  /\ conn' = d.conn
           /\ sessions' = d.sessions
           /\ ops' = Append(ops, "Disconnect")
    /\ phase' = "finished"
    /\ UNCHANGED <<frozen, entries, dest, ldapusers, uyuniusers, allldapusers, abortedIn,
                   calls, prev, failed, run, nfail>>

\* the next run: a new process builds a new LDAPSync over the same servers.
\* The model follows a run after a finished pass whose calls all returned
\* without error; an aborted run has written nothing, so a run after it is a
\* first run again.
NewLDAPSync ==
    /\ phase = "finished"
    /\ \A i \in DOMAIN calls : calls[i].ok
    /\ run < MaxRuns
    /\ run' = run + 1
    /\ prev' = [calls |-> calls, phase |-> phase]
    /\ conn' = "nil"
    /\ sessions' = <<>>
    /\ ops' = <<>>
    /\ ldapusers' = <<>>
    /\ uyuniusers' = <<>>
    /\ allldapusers' = <<>>
    /\ phase' = "new"
    /\ abortedIn' = ""
    /\ calls' = <<>>
    /\ failed' = <<>>
    /\ UNCHANGED <<frozen, entries, dest, nfail>>

\* a direct call of LDAPCaller.Connect; a failing dial is fatal
CallConnect ==
    /\ phase = "api"
    /\ Len(ops) < MaxOps
    /\ \E dialOk \in BOOLEAN :
         LET c == Connect([conn |-> conn, sessions |-> sessions], dialOk)
         IN  /\ ~dialOk => nfail < MaxFail
             /\ conn' = c.conn
             /\ sessions' = c.sessions
             /\ calls' = calls \o DialCalls(c)
             /\ phase' = IF c.fatal THEN "aborted" ELSE phase
             /\ abortedIn' = IF c.fatal THEN "Connect" ELSE abortedIn
             /\ nfail' = IF c.fatal THEN nfail + 1 ELSE nfail
    /\ ops' = Append(ops, "Connect")
    /\ UNCHANGED <<frozen, entries, dest, ldapusers, uyuniusers, allldapusers, prev, failed, run>>

\* a direct call of LDAPCaller.Disconnect
CallDisconnect ==
    /\ phase = "api"
    /\ Len(ops) < MaxOps
    /\ LET d == Disconnect([conn |-> conn, sessions |-> sessions])
       IN  /\ conn' = d.conn
           /\ sessions' = d.sessions
    /\ ops' = Append(ops, "Disconnect")
    /\ UNCHANGED <<frozen, entries, dest, ldapusers, uyuniusers, allldapusers, phase,
                   abortedIn, calls, prev, failed, run, nfail>>

Next ==
    \/ StartDialFails \/ Start \/ SyncUsers \/ Finish \/ NewLDAPSync
    \/ CallConnect \/ CallDisconnect

Spec == Init /\ [][Next]_vars

(***************************************************************************)
(* Vocabulary of the properties.                                           *)
(***************************************************************************)
PushMethods == {"user.create", "user.setDetails", "user.usePamAuthentication",
                "user.addRole", "user.removeRole", "user.delete"}

\* positions of the calls of method m for uid
CallsOf(cs, m, uid) == {i \in DOMAIN cs : cs[i].m = m /\ cs[i].uid = uid}

PushCalls(cs) == {i \in DOMAIN cs : cs[i].m \in PushMethods}

Uids(users) == {users[i].Uid : i \in DOMAIN users}

\* a frozen account holds org_admin on the server
FrozenAdmin == \E i \in DOMAIN frozen : Exists(dest, frozen[i]) /\ "org_admin" \in dest[frozen[i]].roles

\* the step that runs SyncUsers
SyncStep == phase = "started" /\ phase' = "synced"

(***************************************************************************)
(* C1: when no frozen account holds org_admin at the start of a run (an    *)
(* empty frozen list and failing lookups included), the run ends in        *)
(* verifyIgnoredUsers, and an aborted run has issued no create, update,    *)
(* role or delete call.                                                    *)
(***************************************************************************)
C1_LockoutGuard ==
    /\ [][(phase = "new" /\ ~FrozenAdmin /\ conn' = "open")
            => (phase' = "aborted" /\ abortedIn' = "verifyIgnoredUsers" /\ PushCalls(calls') = {})]_vars
    /\ [](phase = "aborted" => PushCalls(calls) = {})

C1_Witness ==
    /\ phase = "aborted"
    /\ abortedIn = "verifyIgnoredUsers"
    /\ ~FrozenAdmin
    /\ \E i \in DOMAIN calls : calls[i].m = "user.listRoles" /\ calls[i].ok

(***************************************************************************)
(* C2: no create, update, role or delete call is ever issued for a uid of  *)
(* the frozen list.                                                        *)
(***************************************************************************)
C2_FrozenUntouched == \A i \in PushCalls(calls) : ~Contains(frozen, calls[i].uid)

\* the frozen account is on the server, staged in the directory and in the
\* full directory set, and the run has pushed something
C2_Witness ==
    /\ phase = "synced"
    /\ PushCalls(calls) # {}
    /\ Contains(frozen, "admin")
    /\ Exists(dest, "admin")
    /\ DnAdmin \in StagedDNs
    /\ "admin" \in Uids(allldapusers)

(***************************************************************************)
(* C3: a full pass in which every remote call succeeded, followed by a     *)
(* second pass over the same directory and configuration: the second pass  *)
(* issues no create, update, role-change or delete call.                   *)
(***************************************************************************)
PrevPassClean == prev.phase = "finished" /\ \A i \in DOMAIN prev.calls : prev.calls[i].ok

C3_Idempotent == (run > 1 /\ PrevPassClean) => PushCalls(calls) = {}

\* the first pass pushed something and the second pass has run SyncUsers
C3_Witness ==
    /\ run > 1
    /\ PrevPassClean
    /\ PushCalls(prev.calls) # {}
    /\ phase = "synced"
    /\ ldapusers # <<>>

(***************************************************************************)
(* C4: a staged user without a destination account of the same uid is      *)
(* marked new, and SyncUsers issues exactly one user.create for its uid.   *)
(***************************************************************************)
C4_NewUserCreatedOnce ==
    [][SyncStep =>
        \A i \in DOMAIN ldapusers :
            ~Exists(dest, ldapusers[i].Uid) =>
                /\ IsNew(ldapusers[i])
                /\ Cardinality(CallsOf(calls', "user.create", ldapusers[i].Uid)) = 1]_vars

C4_Witness ==
    /\ phase = "synced"
    /\ \E i \in DOMAIN ldapusers :
          /\ IsNew(ldapusers[i])
          /\ \E c \in CallsOf(calls, "user.create", ldapusers[i].Uid) : calls[c].ok

(***************************************************************************)
(* C5: SyncUsers issues exactly one user.delete for every uid that is in   *)
(* the destination set (the accounts outside the frozen list) and in the   *)
(* full directory set but not in the staged set, and none for any other    *)
(* uid.                                                                    *)
(***************************************************************************)
DestinationSet == {u \in UIDs : Exists(dest, u) /\ ~Contains(frozen, u)}

C5_DeletedOnce ==
    [][SyncStep =>
        \A u \in UIDs \cup Uids(allldapusers) :
            Cardinality(CallsOf(calls', "user.delete", u)) =
                IF u \in DestinationSet /\ u \in Uids(allldapusers) /\ u \notin Uids(ldapusers)
                THEN 1 ELSE 0]_vars

C5_Witness ==
    /\ phase = "synced"
    /\ \E i \in DOMAIN calls : calls[i].m = "user.delete" /\ calls[i].ok
    /\ \E u \in Uids(allldapusers) : u # "" /\ ~Exists(dest, u)

(***************************************************************************)
(* C6: a staged user whose destination account differs from it in the role *)
(* set only is marked outdated and not new; when user.listRoles and every  *)
(* user.removeRole and user.addRole call of its role push succeed, the     *)
(* account's role set after SyncUsers is exactly the directory-derived     *)
(* role set.                                                               *)
(***************************************************************************)
SameAccountData(user) ==
    /\ Exists(dest, user.Uid)
    /\ dest[user.Uid].email = user.Email
    /\ dest[user.Uid].first_name = user.Name
    /\ dest[user.Uid].last_name = user.Secondname

DiffersOnlyInRoles(user) == SameAccountData(user) /\ dest[user.Uid].roles # Range(GetRoles(user))

RoleMethods == {"user.listRoles", "user.removeRole", "user.addRole"}

\* the role calls SyncUsers issued for uid all returned without error
RolePushSucceeded(cs, uid) ==
    \A i \in DOMAIN cs :
        (cs[i].by = "SyncUsers" /\ cs[i].uid = uid /\ cs[i].m \in RoleMethods) => cs[i].ok

Identical(user) == SameAccountData(user) /\ dest[user.Uid].roles = Range(GetRoles(user))

Picked(users, positions) == {users[positions[k]].Uid : k \in DOMAIN positions}

C7_IdenticalUnchanged ==
    phase = "started" =>
        \A i \in DOMAIN ldapusers :
            Identical(ldapusers[i]) =>
                /\ ~IsNew(ldapusers[i])
                /\ ~IsOutdated(ldapusers[i])
                /\ ldapusers[i].Uid \notin Picked(uyuniusers, GetNewUsers(uyuniusers))
                /\ ldapusers[i].Uid \notin Picked(uyuniusers, GetOutdatedUsers(uyuniusers))

\* an identical user with two roles, next to a user that is picked
C7_Witness ==
    /\ phase = "started"
    /\ \E i \in DOMAIN ldapusers : Identical(ldapusers[i]) /\ Len(GetRoles(ldapusers[i])) = 2
    /\ GetNewUsers(uyuniusers) \o GetOutdatedUsers(uyuniusers) # <<>>

(***************************************************************************)
(* C8: the role set updateLDAPUserRoles gives a user is the same for every *)
(* order of the two role sources and of their DN entries, and holds each   *)
(* role once.                                                              *)
(***************************************************************************)
NoDuplicates(s) == \A i, j \in DOMAIN s : s[i] = s[j] => i = j

SourceOrders == {<<1, 2>>, <<2, 1>>}

C8_RoleUnion ==
    phase = "started" =>
        \A i \in DOMAIN ldapusers :
            \A srcOrder \in SourceOrders, dnOrder \in DnOrders :
                LET user == updateLDAPUserRoles(newUserFromDN(ldapusers[i].Dn), srcOrder, dnOrder)
                IN  /\ Range(GetRoles(user)) = Range(GetRoles(ldapusers[i]))
                    /\ NoDuplicates(GetRoles(user))

\* a user listed under all three configured DNs: org_admin is granted by
\* cn=org_admin and by cn=root
C8_Witness ==
    /\ phase = "started"
    /\ \E i \in DOMAIN ldapusers :
          /\ \A gdn \in {GOrg, GSys, RRoot} :
                Contains(ValuesOf(Search(gdn, AnyClass), "member")
                         \o ValuesOf(Search(gdn, AnyClass), "roleOccupant"), ldapusers[i].Dn)
          /\ Range(GetRoles(ldapusers[i])) = {"org_admin", "channel_admin"}
          /\ Len(GetRoles(ldapusers[i])) = 2

(***************************************************************************)
(* C9: in SyncUsers every call of the create pass precedes every call of   *)
(* the update pass, and every call of the update pass precedes every       *)
(* user.delete call.                                                       *)
(***************************************************************************)
NewUids == {uyuniusers[k].Uid : k \in {n \in DOMAIN uyuniusers : IsNew(uyuniusers[n])}}

\* 1: create pass (calls for a new user), 2: update pass, 3: delete pass
PassOf(c) == IF c.m = "user.delete" THEN 3 ELSE IF c.uid \in NewUids THEN 1 ELSE 2

C9_PassOrder ==
    phase \in {"synced", "finished"} =>
        \A i, j \in DOMAIN calls :
            (i < j /\ calls[i].by = "SyncUsers" /\ calls[j].by = "SyncUsers")
                => PassOf(calls[i]) <= PassOf(calls[j])

\* a run with calls of the create pass and of the update pass
C9_Witness ==
    /\ phase = "synced"
    /\ \E i, j \in DOMAIN calls :
          /\ calls[i].by = "SyncUsers" /\ calls[j].by = "SyncUsers"
          /\ calls[i].m = "user.addRole" /\ PassOf(calls[i]) = 1
          /\ calls[j].m = "user.setDetails" /\ PassOf(calls[j]) = 2

(***************************************************************************)
(* C10: a user.create that fails does not end the run: the user is put in  *)
(* the failure list, no role or account-data call is issued for it, every  *)
(* new user still gets its user.create call, and the list SyncUsers        *)
(* returns holds exactly the users whose user.create failed.               *)
(***************************************************************************)
CreateFailed == {u \in NewUids : \E c \in CallsOf(calls, "user.create", u) : ~calls[c].ok}

C10_CreateFailureIsolated ==
    phase \in {"synced", "finished"} =>
        /\ \A u \in NewUids : Cardinality(CallsOf(calls, "user.create", u)) = 1
        /\ \A u \in CreateFailed :
              \A i \in DOMAIN calls :
                  (calls[i].by = "SyncUsers" /\ calls[i].uid = u) => calls[i].m = "user.create"
        /\ Uids(failed) = CreateFailed
        /\ Len(failed) = Cardinality(CreateFailed)

\* a failed user.create followed by a user.create that succeeds
C10_Witness ==
    /\ phase = "synced"
    /\ failed # <<>>
    /\ \E i, j \in DOMAIN calls :
          /\ i < j
          /\ calls[i].m = "user.create" /\ ~calls[i].ok
          /\ calls[j].m = "user.create" /\ calls[j].ok

(***************************************************************************)
(* C11: when user.listUsers fails, or user.getDetails or user.listRoles    *)
(* fails for an account that is not frozen while Start reads the accounts  *)
(* of the server, the run ends there: the failed call is the last call of  *)
(* the run, the run is aborted in refreshExistingUyuniUsers, and it has    *)
(* issued no create, update, role or delete call.                          *)
(***************************************************************************)
BuildMethods == {"user.getDetails", "user.listRoles"}

\* the call at position i failed while the destination set was built
BuildFailure(i) ==
    /\ calls[i].by = "Start"
    /\ ~calls[i].ok
    /\ \/ calls[i].m = "user.listUsers"
       \/ calls[i].m \in BuildMethods /\ ~Contains(frozen, calls[i].uid)

C11_BuildFailureFatal ==
    \A i \in DOMAIN calls :
        BuildFailure(i) => /\ phase = "aborted"
                           /\ abortedIn = "refreshExistingUyuniUsers"
                           /\ i = Len(calls)
                           /\ PushCalls(calls) = {}

\* the lookup of the roles of an account fails after the lookups of another
\* account succeeded
C11_Witness ==
    /\ phase = "aborted"
    /\ BuildFailure(Len(calls))
    /\ calls[Len(calls)].m = "user.listRoles"
    /\ \E i \in DOMAIN calls : /\ calls[i].m = "user.listRoles" /\ calls[i].ok
                               /\ ~Contains(frozen, calls[i].uid)
                               /\ calls[i].uid # calls[Len(calls)].uid

(***************************************************************************)
(* C12: SyncUsers ends whatever write calls fail, and a failed call skips  *)
(* nothing but what depends on it: every new user gets its user.create;    *)
(* every created and every outdated user gets its user.listRoles and, when *)
(* that succeeds, a user.removeRole for every role the account held and a  *)
(* user.addRole for every directory role; every outdated user gets its     *)
(* user.setDetails; every deleted user gets its user.delete.               *)
(***************************************************************************)
\* SyncUsers issued the call m for uid and role
Attempted(cs, m, uid, role) ==
    \E i \in DOMAIN cs : /\ cs[i].by = "SyncUsers" /\ cs[i].m = m
                         /\ cs[i].uid = uid /\ cs[i].role = role

\* SyncUsers issued the call m for uid and it returned without error
Succeeded(cs, m, uid) ==
    \E i \in DOMAIN cs : /\ cs[i].by = "SyncUsers" /\ cs[i].m = m
                         /\ cs[i].uid = uid /\ cs[i].ok

\* the roles the account of uid holds when its roles are pushed
HeldBeforePush(uid) == IF Exists(dest, uid) THEN dest[uid].roles ELSE {}

EveryStepAttempted(cs, users) ==
    /\ \A i \in DOMAIN users :
          LET user == users[i]
              pushed == \/ IsNew(user) /\ Succeeded(cs, "user.create", user.Uid)
                        \/ IsExisting(user)
          IN  /\ IsNew(user) => Attempted(cs, "user.create", user.Uid, "")
              /\ pushed => Attempted(cs, "user.listRoles", user.Uid, "")
              /\ (pushed /\ Succeeded(cs, "user.listRoles", user.Uid)) =>
                    /\ \A r \in HeldBeforePush(user.Uid) :
                          Attempted(cs, "user.removeRole", user.Uid, r)
                    /\ \A r \in Range(GetRoles(user)) :
                          Attempted(cs, "user.addRole", user.Uid, r)
              /\ IsExisting(user) => Attempted(cs, "user.setDetails", user.Uid, "")
    /\ \A u \in Picked(allldapusers, GetDeletedUsers(allldapusers, ldapusers, uyuniusers)) :
          Attempted(cs, "user.delete", u, "")

C12_WriteFailuresIsolated == [][SyncStep => EveryStepAttempted(calls', uyuniusers')]_vars

\* a role call of the update pass failed; a later role call for the same
\* user and the deletion of another user were still issued
C12_Witness ==
    /\ phase = "synced"
    /\ \E i, j, k \in DOMAIN calls :
          /\ i < j /\ j < k
          /\ calls[i].by = "SyncUsers" /\ calls[i].m = "user.removeRole" /\ ~calls[i].ok
          /\ calls[j].m \in {"user.removeRole", "user.addRole"} /\ calls[j].uid = calls[i].uid
          /\ calls[k].m = "user.delete" /\ calls[k].uid # calls[i].uid

(***************************************************************************)
(* C13: for a new user whose user.create succeeds, the create call comes   *)
(* before every role call for that user, and, when the user.listRoles of   *)
(* its role push succeeds, the create pass issues exactly one user.addRole *)
(* for each role of the directory-derived role set and none for any other  *)
(* role.                                                                   *)
(***************************************************************************)
\* positions of the user.addRole calls SyncUsers issued for uid and role
AddRoleCalls(uid, role) ==
    {i \in DOMAIN calls : /\ calls[i].by = "SyncUsers" /\ calls[i].m = "user.addRole"
                          /\ calls[i].uid = uid /\ calls[i].role = role}

\* the role set the directory gives uid
DirectoryRoles(uid) ==
    UNION {Range(GetRoles(ldapusers[i])) : i \in {n \in DOMAIN ldapusers : ldapusers[n].Uid = uid}}

Created == {u \in NewUids : Succeeded(calls, "user.create", u)}

CreateBeforeRoles(u) ==
    \A i \in CallsOf(calls, "user.create", u) :
        \A j \in DOMAIN calls :
            (calls[j].by = "SyncUsers" /\ calls[j].uid = u /\ calls[j].m \in RoleMethods) => i < j

OneAddRolePerRole(u) ==
    \A r \in DestRoles :
        Cardinality(AddRoleCalls(u, r)) = IF r \in DirectoryRoles(u) THEN 1 ELSE 0

ExistingUids == {uyuniusers[k].Uid : k \in {n \in DOMAIN uyuniusers : IsExisting(uyuniusers[n])}}

AccountMethods == {"user.setDetails", "user.usePamAuthentication"}

\* positions of the calls SyncUsers issued for uid with a method of ms
SyncCallsFor(uid, ms) ==
    {i \in DOMAIN calls : calls[i].by = "SyncUsers" /\ calls[i].uid = uid /\ calls[i].m \in ms}

Failed(m, uid) == \E i \in SyncCallsFor(uid, {m}) : ~calls[i].ok

RolesBeforeAccountData(u) ==
    /\ \A i \in SyncCallsFor(u, RoleMethods), j \in SyncCallsFor(u, AccountMethods) : i < j
    /\ \A i \in SyncCallsFor(u, {"user.setDetails"}),
          j \in SyncCallsFor(u, {"user.usePamAuthentication"}) : i < j

Processed(u) ==
    /\ Cardinality(SyncCallsFor(u, {"user.listRoles"})) = 1
    /\ Cardinality(SyncCallsFor(u, {"user.setDetails"})) = 1

C14_UpdateStep ==
    phase \in {"synced", "finished"} =>
        \A u \in ExistingUids :
            /\ RolesBeforeAccountData(u)
            /\ Processed(u)
            /\ Failed("user.listRoles", u) =>
                  SyncCallsFor(u, {"user.removeRole", "user.addRole"}) = {}
            /\ Failed("user.setDetails", u) =>
                  SyncCallsFor(u, {"user.usePamAuthentication"}) = {}

\* C14 as stated: after a failed user.listRoles or user.setDetails no further
\* call is issued for that user
C14_AsStated ==
    phase \in {"synced", "finished"} =>
        \A u \in ExistingUids :
            /\ RolesBeforeAccountData(u)
            /\ \A i \in SyncCallsFor(u, {"user.listRoles", "user.setDetails"}) :
                  ~calls[i].ok => \A j \in SyncCallsFor(u, PushMethods \cup RoleMethods) : j <= i

\* the user.setDetails of one outdated user failed and the next outdated
\* user was processed
C14_Witness ==
    /\ phase = "synced"
    /\ \E u, v \in ExistingUids :
          /\ u # v
          /\ Failed("user.setDetails", u)
          /\ \E i \in SyncCallsFor(u, {"user.setDetails"}), j \in SyncCallsFor(v, {"user.listRoles"}) :
                i < j
          /\ SyncCallsFor(v, {"user.usePamAuthentication"}) # {}

(***************************************************************************)
(* C15: the guard fails only when, for every frozen account that holds     *)
(* org_admin, the lookup of its roles was issued and failed: one lookup    *)
(* that returns org_admin lets the run pass, whatever the other lookups    *)
(* do.  Once the connection is dialled, the lookups of the guard are the   *)
(* first calls of Start: no directory search, no user.listUsers and no     *)
(* other call is issued before a lookup of the guard returned org_admin.   *)
(***************************************************************************)
\* the call at position i is a lookup of the guard
GuardLookup(i) ==
    /\ calls[i].by = "Start"
    /\ calls[i].m = "user.listRoles"
    /\ Contains(frozen, calls[i].uid)

\* the lookup at position i returned a role list with org_admin
GuardPassedAt(i) ==
    /\ GuardLookup(i)
    /\ calls[i].ok
    /\ "org_admin" \in dest[calls[i].uid].roles

GuardFailed == phase = "aborted" /\ abortedIn = "verifyIgnoredUsers"

QueriedDNs ==
    StagedDNs \cup {e.DN : e \in Range(Search(Allusers, {"organizationalPerson"}))}

\* the search for dn does not return exactly one entry
NotOneEntry(dn) == Len(Search(dn, AnyClass)) # 1

AccountFieldsEmpty(user) ==
    user.Uid = "" /\ user.Email = "" /\ user.Name = "" /\ user.Secondname = ""

\* the users of the full directory set that come from such a DN
PlaceholdersRead ==
    LET found == Search(Allusers, {"organizationalPerson"})
    IN  {allldapusers[i] : i \in {n \in DOMAIN allldapusers : NotOneEntry(found[n].DN)}}

NoEmptyUid ==
    /\ \A i \in DOMAIN ldapusers : ldapusers[i].Uid # ""
    /\ \A i \in DOMAIN uyuniusers : uyuniusers[i].Uid # ""
    /\ \A i \in DOMAIN calls :
          calls[i].m \in PushMethods \cup RoleMethods \cup BuildMethods => calls[i].uid # ""

SearchAbortIsFailure ==
    GuardFailed \/ phase # "aborted" \/ ~calls[Len(calls)].ok

C16_Placeholder ==
    /\ SearchAbortIsFailure
    /\ phase \in {"started", "synced", "finished"} =>
          /\ \A dn \in QueriedDNs :
                NotOneEntry(dn) => /\ newUserFromDN(dn).Dn = ""
                                   /\ AccountFieldsEmpty(newUserFromDN(dn))
          /\ \A user \in PlaceholdersRead : user.Dn = "" /\ AccountFieldsEmpty(user)
          /\ NoEmptyUid

\* C16 as stated: the user returned carries the queried DN
C16_AsStated ==
    phase \in {"started", "synced", "finished"} =>
        /\ \A dn \in QueriedDNs :
              NotOneEntry(dn) => /\ newUserFromDN(dn).Dn = dn
                                 /\ AccountFieldsEmpty(newUserFromDN(dn))
        /\ NoEmptyUid

\* a member DN with several entries below it was read into the full
\* directory set, and the run went on to push
C16_Witness ==
    /\ phase = "synced"
    /\ \E dn \in StagedDNs : Len(Search(dn, AnyClass)) > 1
    /\ PlaceholdersRead # {}
    /\ PushCalls(calls) # {}

(***************************************************************************)
(* C17: an account of the server whose uid is neither in the staged set    *)
(* nor in the full directory set is left alone by SyncUsers: no            *)
(* user.setDetails, user.usePamAuthentication, user.addRole,               *)
(* user.removeRole or user.delete is issued for it and the account stays   *)
(* as it was.                                                              *)
(***************************************************************************)
ChangeMethods == PushMethods \ {"user.create"}

\* the accounts of the server that neither directory set names
UnknownToDirectory ==
    {u \in UIDs : Exists(dest, u) /\ u \notin Uids(ldapusers) /\ u \notin Uids(allldapusers)}

C17_UnknownUntouched ==
    [][SyncStep =>
        \A u \in UnknownToDirectory :
            /\ \A i \in DOMAIN calls' : calls'[i].m \in ChangeMethods => calls'[i].uid # u
            /\ dest'[u] = dest[u]]_vars

\* the server holds an account that is read into the working set and that
\* the directory does not name, and the run has pushed for another account
C17_Witness ==
    /\ phase = "synced"
    /\ PushCalls(calls) # {}
    /\ \E u \in UnknownToDirectory :
          /\ u \in Uids(uyuniusers)
          /\ \A i \in PushCalls(calls) : calls[i].uid # u

(***************************************************************************)
(* C18: the uids returned by GetNewUsers, by GetOutdatedUsers and by       *)
(* GetDeletedUsers are pairwise disjoint, and no uid gets a user.delete    *)
(* together with a user.create or a user.setDetails in one run.            *)
(***************************************************************************)
NewSet == Picked(uyuniusers, GetNewUsers(uyuniusers))

OutdatedSet == Picked(uyuniusers, GetOutdatedUsers(uyuniusers))

DeletedSet == Picked(allldapusers, GetDeletedUsers(allldapusers, ldapusers, uyuniusers))

C18_ClassesDisjoint ==
    phase \in {"started", "synced", "finished"} =>
        /\ NewSet \cap OutdatedSet = {}
        /\ NewSet \cap DeletedSet = {}
        /\ OutdatedSet \cap DeletedSet = {}
        /\ \A u \in UIDs :
              CallsOf(calls, "user.delete", u) # {} =>
                  /\ CallsOf(calls, "user.create", u) = {}
                  /\ CallsOf(calls, "user.setDetails", u) = {}

\* one user was updated and another one deleted in the same run
C18_Witness ==
    /\ phase = "synced"
    /\ OutdatedSet # {}
    /\ DeletedSet # {}
    /\ \E u \in OutdatedSet : CallsOf(calls, "user.setDetails", u) # {}
    /\ \E u \in DeletedSet : CallsOf(calls, "user.delete", u) # {}

(***************************************************************************)
(* C19: every user of the staged set has at least one role, and no account *)
(* is created or updated with an empty directory role set.  The staged set *)
(* is collected from the attributes member and roleOccupant of every entry *)
(* below a configured DN, whatever its object class; the roles are merged  *)
(* from the entries of the object classes of the source only, so a member  *)
(* of an entry of another class is staged without a role.                  *)
(***************************************************************************)
C19_AsStated ==
    phase \in {"started", "synced", "finished"} =>
        /\ \A i \in DOMAIN ldapusers : GetRoles(ldapusers[i]) # <<>>
        /\ \A u \in Created \cup ExistingUids : DirectoryRoles(u) # {}

(***************************************************************************)
(* C20: an LDAPCaller holds at most one open connection at a time, over    *)
(* any sequence of Connect and Disconnect calls: Connect on an open        *)
(* connection dials nothing, Disconnect without a connection does nothing, *)
(* and a connection is closed at most once.  In a run the connection is    *)
(* dialled before any directory search.                                    *)
(***************************************************************************)
\* the connections dialled and not closed
OpenSessions == {i \in DOMAIN sessions : sessions[i] = 0}

\* the step calls the LDAPCaller method op
Calls(op) == Len(ops') = Len(ops) + 1 /\ ops'[Len(ops')] = op

SingleSession ==
    /\ Cardinality(OpenSessions) <= 1
    /\ \A i \in DOMAIN sessions : sessions[i] <= 1
    /\ conn = "open" <=> OpenSessions # {}
    /\ \A j \in DOMAIN calls :
          calls[j].m = "ldap.Search" =>
              \E i \in 1..(j - 1) : calls[i].m = "ldap.Dial" /\ calls[i].ok

C20_SingleSession ==
    /\ []SingleSession
    /\ [][/\ (Calls("Connect") /\ conn = "open") =>
               (conn' = "open" /\ sessions' = sessions /\ calls' = calls)
          /\ (Calls("Disconnect") /\ conn = "nil") =>
               (conn' = "nil" /\ sessions' = sessions)]_vars

\* Connect twice, then Disconnect twice: one connection, closed once
C20_Witness ==
    /\ phase = "api"
    /\ ops = <<"Connect", "Connect", "Disconnect", "Disconnect">>
    /\ sessions = <<1>>
    /\ conn = "nil"

====
